---- MODULE Spec2Model ----
(***************************************************************************)
(* A model of the weth REPL (src/src/main.go): the in-memory time record,  *)
(* the military-time flag, the current and default location records, the   *)
(* start-up location resolver and the settime / time / setloc / loc        *)
(* command handlers.                                                       *)
(*                                                                         *)
(* Command-line tokens are sequences of one-character strings, so that     *)
(* strconv.Atoi, strconv.ParseBool, strings.HasPrefix and strings.ToLower  *)
(* are computed character by character as the library computes them.       *)
(* Handler results are plain strings.                                      *)
(***************************************************************************)
EXTENDS Integers, Sequences, FiniteSets, TLC

VARIABLES
    pc,               \* position of main: the resolver's stages, "seed", "repl", "fatal"
    internalTime,     \* var internalTime time.Time, as [hour, day, month, year]
    militaryTime,     \* var militaryTime bool
    internalLocation, \* var internalLocation Location
    defaultLocation,  \* var defaultLocation Location
    ipAddr,           \* requestLocation's local ipAddr ("" until the body is read)
    body,             \* requestLocation's local body, once the second response is read
    requests,         \* the HTTP requests issued so far, in order
    cmdCount,         \* number of command lines dispatched to a handler so far
    lastCmd,          \* name of the last command dispatched ("" before the first)
    lastArgs,         \* arguments[1:] of the last command dispatched
    lastKind,         \* which return statement of the handler produced the result
    output,           \* the string the last handler returned
    stateValues,      \* setTime's scratch map when it returned
    preTime,          \* internalTime when the last handler was entered
    preMilitary,      \* militaryTime when the last handler was entered
    preLocation       \* internalLocation when the last handler was entered

vars == <<pc, internalTime, militaryTime, internalLocation, defaultLocation,
          ipAddr, body, requests, cmdCount, lastCmd, lastArgs, lastKind, output,
          stateValues, preTime, preMilitary, preLocation>>

-----------------------------------------------------------------------------
(* Bounds of the model.                                                    *)

\* command lines dispatched after start-up in the full program
MaxCmds == 3
\* tokens supplied beyond the positional ones (4 for settime, 3 for setloc)
MaxExtra == 1

-----------------------------------------------------------------------------
(* Strings.                                                                *)

RECURSIVE Str(_)
\* the Go string made of the characters of a token
Str(s) == IF s = <<>> THEN "" ELSE Head(s) \o Str(Tail(s))

DigitChars == <<"0", "1", "2", "3", "4", "5", "6", "7", "8", "9">>

DigitVal(c) == CHOOSE d \in 0..9 : DigitChars[d + 1] = c

IsDigit(c) == \E d \in 0..9 : DigitChars[d + 1] = c

RECURSIVE ItoaNat(_)
ItoaNat(n) == IF n < 10 THEN DigitChars[n + 1]
              ELSE ItoaNat(n \div 10) \o DigitChars[(n % 10) + 1]

\* strconv.Itoa, and fmt's %d
Itoa(n) == IF n < 0 THEN "-" \o ItoaNat(-n) ELSE ItoaNat(n)

RECURSIVE DigitsValue(_, _)
\* the loop of strconv.Atoi's fast path: n = n*10 + (ch - '0')
DigitsValue(s, n) == IF s = <<>> THEN n
                     ELSE DigitsValue(Tail(s), n * 10 + DigitVal(Head(s)))

\* strconv.Atoi on a token shorter than 19 characters: an optional sign, then
\* one or more decimal digits; anything else is a syntax error
Atoi(s) ==
    LET signed == s # <<>> /\ Head(s) \in {"+", "-"}
        digits == IF signed THEN Tail(s) ELSE s
    IN  IF digits = <<>> \/ \E i \in 1..Len(digits) : ~IsDigit(digits[i])
        THEN [err |-> TRUE, val |-> 0]
        ELSE [err |-> FALSE,
              val |-> IF signed /\ Head(s) = "-" THEN -DigitsValue(digits, 0)
                      ELSE DigitsValue(digits, 0)]

\* strconv.ParseBool
ParseBool(s) ==
    LET str == Str(s)
    IN  IF str \in {"1", "t", "T", "TRUE", "true", "True"}
        THEN [err |-> FALSE, val |-> TRUE]
        ELSE IF str \in {"0", "f", "F", "FALSE", "false", "False"}
        THEN [err |-> FALSE, val |-> FALSE]
        ELSE [err |-> TRUE, val |-> FALSE]

UpperChars == <<"A", "B", "C", "D", "E", "F", "G", "H", "I", "J", "K", "L", "M",
                "N", "O", "P", "Q", "R", "S", "T", "U", "V", "W", "X", "Y", "Z">>
LowerChars == <<"a", "b", "c", "d", "e", "f", "g", "h", "i", "j", "k", "l", "m",
                "n", "o", "p", "q", "r", "s", "t", "u", "v", "w", "x", "y", "z">>

\* strings.ToLower, on ASCII
ToLower(s) ==
    [i \in 1..Len(s) |->
        IF \E k \in 1..26 : UpperChars[k] = s[i]
        THEN LowerChars[CHOOSE k \in 1..26 : UpperChars[k] = s[i]]
        ELSE s[i]]

\* strings.HasPrefix
HasPrefix(s, p) == Len(s) >= Len(p) /\ SubSeq(s, 1, Len(p)) = p

\* strings.TrimPrefix
TrimPrefix(s, p) == IF HasPrefix(s, p) THEN SubSeq(s, Len(p) + 1, Len(s)) ELSE s

\* fmt's %02d and %04d for a non-negative number
RECURSIVE Pad(_, _)
Pad(str, width) == IF Len(str) >= width THEN str ELSE Pad("0" \o str, width)

-----------------------------------------------------------------------------
(* The month tables.                                                       *)

validMonthCodes ==
    [january |-> 1, february |-> 2, march |-> 3, april |-> 4, may |-> 5,
     june |-> 6, july |-> 7, august |-> 8, september |-> 9, october |-> 10,
     november |-> 11, december |-> 12, jan |-> 1, feb |-> 2, mar |-> 3,
     apr |-> 4, jun |-> 6, jul |-> 7, aug |-> 8, sep |-> 9, oct |-> 10,
     nov |-> 11, dec |-> 12]

\* a Go map read: the zero value for a missing key
MonthCode(str) == IF str \in DOMAIN validMonthCodes THEN validMonthCodes[str] ELSE 0

codesToMonth ==
    <<"January", "February", "March", "April", "May", "June", "July", "August",
      "September", "October", "November", "December">>

-----------------------------------------------------------------------------
(* time.Time, as far as the program reads it: Hour(), Day(), Month() and   *)
(* Year() of a local time whose minutes and seconds are zero.              *)

IsLeap(y) == y % 4 = 0 /\ (y % 100 # 0 \/ y % 400 = 0)

DaysIn(y, m) == IF m = 2 THEN (IF IsLeap(y) THEN 29 ELSE 28)
                ELSE IF m \in {4, 6, 9, 11} THEN 30 ELSE 31

\* a time.Time value the accessors can return
ValidTime(t) == /\ t.hour \in 0..23
                /\ t.month \in 1..12
                /\ t.day \in 1..DaysIn(t.year, t.month)

RECURSIVE RollDay(_, _, _, _)
\* time.Date turns year, month and day into a count of days and the
\* accessors turn the count back into a date: a day before the 1st or after
\* the last day of the month moves into the neighbouring months
RollDay(y, m, d, h) ==
    IF d < 1
    THEN LET pm == IF m = 1 THEN 12 ELSE m - 1
             py == IF m = 1 THEN y - 1 ELSE y
         IN  RollDay(py, pm, d + DaysIn(py, pm), h)
    ELSE IF d > DaysIn(y, m)
    THEN RollDay(IF m = 12 THEN y + 1 ELSE y, IF m = 12 THEN 1 ELSE m + 1,
                 d - DaysIn(y, m), h)
    ELSE [hour |-> h, day |-> d, month |-> m, year |-> y]

\* time.Date's normalisation: the month is brought into 1-12 by carrying
\* into the year, the hour into 0-23 by carrying into the day
NormDate(y, m, d, h) ==
    RollDay(y + ((m - 1) \div 12), ((m - 1) % 12) + 1, d + (h \div 24), h % 24)

\* Local hours that a daylight-saving zone skips (America/New_York skips
\* 02:00 on 2024-03-10).  time.Local is whatever zone the process runs in.
SkippedHours == {[hour |-> 2, day |-> 10, month |-> 3, year |-> 2024]}

\* time.Date(year, month, day, hour, 0, 0, 0, time.Local): the normalised
\* date; for an hour the local zone skips, "a time that is correct in one of
\* the two zones involved in the transition", an hour earlier or later
Date(y, m, d, h) ==
    LET n == NormDate(y, m, d, h)
    IN  {n} \cup (IF n \in SkippedHours
                  THEN {[n EXCEPT !.hour = @ - 1], [n EXCEPT !.hour = @ + 1]}
                  ELSE {})

\* what time.Now() may return
NowTimes ==
    {[hour |-> 9,  day |-> 15, month |-> 6,  year |-> 2024],
     [hour |-> 23, day |-> 31, month |-> 12, year |-> 2024],
     [hour |-> 0,  day |-> 31, month |-> 1,  year |-> 2024],
     [hour |-> 12, day |-> 10, month |-> 3,  year |-> 2024],
     [hour |-> 13, day |-> 29, month |-> 2,  year |-> 2024]}

\* internalTime.Format(time.DateOnly), for a year of 0 or more
FormatDateOnly(t) ==
    Pad(Itoa(t.year), 4) \o "-" \o Pad(Itoa(t.month), 2) \o "-" \o Pad(Itoa(t.day), 2)

-----------------------------------------------------------------------------
(* printTime.                                                              *)

HourReprNoonPM(h, military) ==
    IF ~military
    THEN IF h >= 12 THEN Itoa(h % 12) \o "PM" ELSE Itoa(h) \o "AM"
    ELSE Itoa(h) \o ":00"

\* the variable hour of printTime
HourRepr(h, military) ==
    IF ~military
    THEN IF h > 12 THEN Itoa(h % 12) \o "PM" ELSE Itoa(h) \o "AM"
    ELSE Itoa(h) \o ":00"

printTime(t, military) ==
    HourRepr(t.hour, military) \o ", " \o codesToMonth[t.month] \o " "
        \o Itoa(t.day) \o ", " \o Itoa(t.year)

-----------------------------------------------------------------------------
(* setTime.                                                                *)

helpMessage == "\n  for detailed usage, enter: settime --help"

usageStrings == "  usage: settime <HOUR> <DAY> <MONTH> <YEAR>"

stateNames == <<"Hour", "Day", "Month", "Year">>

Min(a, b) == IF a < b THEN a ELSE b

ZeroStateValues(t) == [Hour |-> 0, Day |-> 0, Month |-> 0, Year |-> 0]

\* var stateValues = map[string]int{"Hour": internalTime.Hour(), ...}
InitialStateValues(t) ==
    [Hour |-> t.hour, Day |-> t.day, Month |-> t.month, Year |-> t.year]

RelativeReplaces(cur, n) == n

\* stateValues[stateNames[i]] += relNum
Relative(cur, n) == cur + n

AbsoluteAdds(cur, n) == cur + n

\* stateValues[stateNames[i]] = absNum
Absolute(cur, n) == n

MonthAtLeastOne(n) == n >= 1

\* the negation of: monthNum < 1 || monthNum > 12
MonthInRange(n) == ~(n < 1 \/ n > 12)

AbortCommitsScratch(kind, out, t, military, sv) ==
    [kind |-> kind, out |-> out, military |-> military, sv |-> sv,
     time |-> NormDate(sv.Year, sv.Month, sv.Day, sv.Hour)]

\* a return of an error string from inside the loop: internalTime and
\* militaryTime are not assigned
Abort(kind, out, t, military, sv) ==
    [kind |-> kind, out |-> out, time |-> t, military |-> military, sv |-> sv]

RECURSIVE ParseTokens(_, _, _, _, _)
\* the loop over args[i], i < min(len(stateNames), len(args)), from position
\* i (counted from 1) with scratch map sv; "commit" when the loop runs out
ParseTokens(args, i, sv, t, military) ==
    IF i > Min(Len(stateNames), Len(args))
    THEN [kind |-> "commit", out |-> "", time |-> t, military |-> military, sv |-> sv]
    ELSE
    LET tok  == args[i]
        name == stateNames[i]
    IN  IF tok = <<"*">>
        THEN ParseTokens(args, i + 1, sv, t, military)
        ELSE IF tok # <<>> /\ Head(tok) = "/"
        THEN LET rel == Atoi(Tail(tok))
             IN  IF rel.err
                 THEN Abort("errNumber",
                            "  Error: Expected a number for " \o name \o ", got "
                                \o Str(Tail(tok)) \o helpMessage,
                            t, military, sv)
                 ELSE ParseTokens(args, i + 1,
                                  [sv EXCEPT ![name] = Relative(@, rel.val)],
                                  t, military)
        ELSE IF name # "Month"
        THEN LET abs == Atoi(tok)
             IN  IF abs.err
                 THEN Abort("errNumber",
                            "  Error: Expected a number for " \o name \o ", got "
                                \o Str(tok) \o helpMessage,
                            t, military, sv)
                 ELSE ParseTokens(args, i + 1,
                                  [sv EXCEPT ![name] = Absolute(@, abs.val)],
                                  t, military)
        ELSE LET monthNum == Atoi(tok)
                 code     == MonthCode(Str(ToLower(tok)))
             IN  IF ~monthNum.err
                 THEN IF ~MonthInRange(monthNum.val)
                      THEN Abort("errMonthRange",
                                 "  Error: Expected Month number in range 1-12, got "
                                     \o Itoa(monthNum.val) \o helpMessage,
                                 t, military, sv)
                      ELSE ParseTokens(args, i + 1,
                                       [sv EXCEPT ![name] = Absolute(@, monthNum.val)],
                                       t, military)
                 ELSE IF code # 0
                 THEN ParseTokens(args, i + 1,
                                  [sv EXCEPT ![name] = Absolute(@, code)],
                                  t, military)
                 ELSE Abort("errMonthCode",
                            "  Error: Expected a valid month code. Got "
                                \o Str(tok) \o helpMessage,
                            t, military, sv)

MilitaryPrefix == <<"-", "-", "m", "i", "l", "i", "t", "a", "r", "y", "=">>

SetMilitaryToggles(args, t, military) ==
    LET desiredVal == ParseBool(TrimPrefix(args[1], MilitaryPrefix))
    IN  IF desiredVal.err
        THEN {[kind |-> "usage", time |-> t, military |-> military,
               sv |-> InitialStateValues(t),
               out |-> "  usage: settime --military=<BOOLEAN VALUE>" \o helpMessage]}
        ELSE {[kind |-> "military", time |-> t, military |-> ~military,
               sv |-> InitialStateValues(t),
               out |-> IF ~military THEN "  military time enabled"
                       ELSE "  military time disabled"]}

\* the branch taken when args[0] has the prefix "--military="
SetMilitary(args, t, military) ==
    LET desiredVal == ParseBool(TrimPrefix(args[1], MilitaryPrefix))
    IN  IF desiredVal.err
        THEN {[kind |-> "usage", time |-> t, military |-> military,
               sv |-> InitialStateValues(t),
               out |-> "  usage: settime --military=<BOOLEAN VALUE>" \o helpMessage]}
        ELSE {[kind |-> "military", time |-> t, military |-> desiredVal.val,
               sv |-> InitialStateValues(t),
               out |-> IF desiredVal.val THEN "  military time enabled"
                       ELSE "  military time disabled"]}

\* func setTime(args []string) string, entered with internalTime = t and
\* militaryTime = military: the results it can return, each with the values
\* it leaves in internalTime and militaryTime and with its scratch map
setTime(args, t, military) ==
    IF Len(args) = 0
    THEN {[kind |-> "now", time |-> now, military |-> military,
           sv |-> InitialStateValues(t),
           out |-> "  set time to " \o FormatDateOnly(now) \o " Hour: " \o Itoa(now.hour)]
          : now \in NowTimes}
    ELSE IF args[1] = <<"-", "-", "h", "e", "l", "p">> \/ args[1] = <<"-", "h">>
    THEN {[kind |-> "help", time |-> t, military |-> military,
           sv |-> InitialStateValues(t), out |-> usageStrings]}
    ELSE IF HasPrefix(args[1], MilitaryPrefix)
    THEN SetMilitary(args, t, military)
    ELSE LET r == ParseTokens(args, 1, InitialStateValues(t), t, military)
         IN  IF r.kind # "commit"
             THEN {r}
             ELSE {[kind |-> "set", time |-> new, military |-> military, sv |-> r.sv,
                    out |-> "  set time to: " \o printTime(new, military)]
                   : new \in Date(r.sv.Year, r.sv.Month, r.sv.Day, r.sv.Hour)}

\* func getTime([]string) string
getTime(t, military) == printTime(t, military)

-----------------------------------------------------------------------------
(* setLocation and getLocation.                                            *)

\* the zero value of type Location
ZeroLocation == [Country |-> "", Region |-> "", City |-> "", Timezone |-> ""]

locationNames == <<"City", "Region", "Country">>

\* fmt.Sprintf("Location: %s %s, %s", City, Region, Country)
FormatLocation(loc) ==
    "Location: " \o loc.City \o " " \o loc.Region \o ", " \o loc.Country

ResetKeepsCurrent(cur, def) == cur

\* the three assignments of the zero-argument branch
ResetLocation(cur, def) ==
    [cur EXCEPT !.City = def.City, !.Region = def.Region, !.Country = def.Country]

RECURSIVE ReplaceFieldsReversed(_, _, _)
ReplaceFieldsReversed(args, i, loc) ==
    IF i > Min(Len(locationNames), Len(args))
    THEN loc
    ELSE IF args[i] = <<"*">>
    THEN ReplaceFieldsReversed(args, i + 1, loc)
    ELSE ReplaceFieldsReversed(args, i + 1,
             [loc EXCEPT ![locationNames[4 - i]] = Str(args[i])])

RECURSIVE ReplaceFields(_, _, _)
\* the loop over args[i], i < min(len(stateNames), len(args)), and the three
\* assignments that follow it
ReplaceFields(args, i, loc) ==
    IF i > Min(Len(locationNames), Len(args))
    THEN loc
    ELSE IF args[i] = <<"*">>
    THEN ReplaceFields(args, i + 1, loc)
    ELSE ReplaceFields(args, i + 1, [loc EXCEPT ![locationNames[i]] = Str(args[i])])

\* func setLocation(args []string) string: the new internalLocation and the
\* string returned
setLocation(args, cur, def) ==
    LET new == IF Len(args) = 0 THEN ResetLocation(cur, def)
               ELSE ReplaceFields(args, 1, cur)
    IN  [kind |-> IF Len(args) = 0 THEN "reset" ELSE "set",
         loc  |-> new,
         out  |-> FormatLocation(new)]

\* func getLocation([]string) string
getLocation(cur) == FormatLocation(cur)

-----------------------------------------------------------------------------
(* Inputs.                                                                 *)

Tok_star     == <<"*">>
Tok_badnum   == <<"b", "a", "d", "n", "u", "m">>
Tok_foo      == <<"f", "o", "o">>
Tok_extra    == <<"e", "x", "t", "r", "a">>
Tok_Canada   == <<"C", "a", "n", "a", "d", "a">>
Tok_milTrue  == MilitaryPrefix \o <<"t", "r", "u", "e">>
Tok_milF     == MilitaryPrefix \o <<"F">>
Tok_milZero  == MilitaryPrefix \o <<"0">>
Tok_milMaybe == MilitaryPrefix \o <<"m", "a", "y", "b", "e">>
Tok_help     == <<"-", "-", "h", "e", "l", "p">>
Tok_h        == <<"-", "h">>

\* tokens tried in the Hour, Day, Month and Year positions of settime
HourTokens  == {Tok_star, <<"1", "4">>, <<"2">>, <<"/", "-", "1", "0">>, Tok_badnum}
DayTokens   == {Tok_star, <<"1">>, <<"3", "1">>, <<"/", "1">>}
MonthTokens == {Tok_star, <<"1">>, <<"1", "3">>, <<"d", "e", "c">>, <<"F", "e", "b">>,
                <<"J", "A", "N">>, <<"/", "1">>, Tok_foo}
YearTokens  == {Tok_star, <<"2", "0", "2", "4">>, <<"2", "0", "3", "0">>,
                <<"/", "-", "1">>, Tok_milTrue}

PositionTokens(i) == IF i = 1 THEN HourTokens
                     ELSE IF i = 2 THEN DayTokens
                     ELSE IF i = 3 THEN MonthTokens
                     ELSE IF i = 4 THEN YearTokens
                     ELSE {Tok_extra}

RECURSIVE TokenLists(_)
\* the argument lists of exactly n positional tokens
TokenLists(n) == IF n = 0 THEN {<<>>}
                 ELSE {Append(l, tok) : l \in TokenLists(n - 1), tok \in PositionTokens(n)}

MilitaryTokens == {Tok_milTrue, Tok_milF, Tok_milZero, Tok_milMaybe, MilitaryPrefix}

\* the argument lists of settime tried from one state
TimeArgs ==
    UNION {TokenLists(n) : n \in 0..(Len(stateNames) + MaxExtra)}
    \cup {<<first>> \o rest : first \in MilitaryTokens \cup {Tok_help, Tok_h},
                             rest \in {<<>>, <<Tok_badnum>>, <<<<"1", "4">>, <<"3", "1">>>>}}

\* the argument lists of settime tried in the full program
ReplTimeArgs ==
    {<<>>, <<Tok_help>>, <<Tok_milTrue>>, <<Tok_milZero, <<"1", "4">>>>, <<Tok_milMaybe>>,
     <<<<"/", "1", "5">>>>, <<Tok_star, <<"3", "1">>, <<"F", "e", "b">>>>,
     <<<<"1", "4">>, Tok_star, <<"d", "e", "c">>, <<"2", "0", "3", "0">>>>,
     <<Tok_star, Tok_star, <<"/", "1">>, Tok_badnum>>}

LocationTokens(i) == IF i <= Len(locationNames) THEN {Tok_star, Tok_Canada}
                     ELSE {Tok_extra}

RECURSIVE LocationLists(_)
LocationLists(n) ==
    IF n = 0 THEN {<<>>}
    ELSE {Append(l, tok) : l \in LocationLists(n - 1), tok \in LocationTokens(n)}

\* the argument lists of setloc tried
LocationArgs == UNION {LocationLists(n) : n \in 0..(Len(locationNames) + MaxExtra)}

\* command names the dispatch table does not hold
UnknownCommands == {"help", "now"}

\* the bodies the geolocation endpoint may answer with: a JSON object with
\* the four keys, or something json.Unmarshal rejects
GeoBodies ==
    {[json |-> TRUE,  loc |-> [Country |-> "France", Region |-> "IDF", City |-> "Paris",
                               Timezone |-> "Europe/Paris"]],
     [json |-> TRUE,  loc |-> [Country |-> "Canada", Region |-> "", City |-> "Ottawa",
                               Timezone |-> ""]],
     [json |-> FALSE, loc |-> ZeroLocation]}

\* the bodies the public-IP endpoint may answer with
IpBodies == {"203.0.113.7"}

-----------------------------------------------------------------------------
(* main and requestLocation.                                               *)

\* the zero time.Time: January 1, year 1, 00:00
ZeroTime == [hour |-> 0, day |-> 1, month |-> 1, year |-> 1]

Init ==
    /\ pc = "ipGet"
    /\ internalTime = ZeroTime
    /\ militaryTime = FALSE
    /\ internalLocation = ZeroLocation
    /\ defaultLocation = ZeroLocation
    /\ ipAddr = ""
    /\ body = [json |-> FALSE, loc |-> ZeroLocation]
    /\ requests = <<>>
    /\ cmdCount = 0
    /\ lastCmd = ""
    /\ lastArgs = <<>>
    /\ lastKind = ""
    /\ output = ""
    /\ stateValues = InitialStateValues(ZeroTime)
    /\ preTime = ZeroTime
    /\ preMilitary = FALSE
    /\ preLocation = ZeroLocation

StageIgnoresError(stage, failed) ==
    IF stage = "ipGet" THEN "ipRead"
    ELSE IF stage = "ipRead" THEN "geoGet"
    ELSE IF stage = "geoGet" THEN "geoRead"
    ELSE IF stage = "geoRead" THEN "decode"
    ELSE "seed"

\* where requestLocation goes after a stage: log.Fatal ends the process on
\* an error, the next statement runs otherwise
Stage(stage, failed) ==
    IF failed THEN "fatal"
    ELSE IF stage = "ipGet" THEN "ipRead"
    ELSE IF stage = "ipRead" THEN "geoGet"
    ELSE IF stage = "geoGet" THEN "geoRead"
    ELSE IF stage = "geoRead" THEN "decode"
    ELSE "seed"

history == <<cmdCount, lastCmd, lastArgs, lastKind, output, stateValues,
             preTime, preMilitary, preLocation>>

\* resp, err := http.Get("https://api64.ipify.org")
HttpGetIp ==
    /\ pc = "ipGet"
    /\ requests' = Append(requests, "https://api64.ipify.org")
    /\ \E failed \in BOOLEAN : pc' = Stage("ipGet", failed)
    /\ UNCHANGED <<internalTime, militaryTime, internalLocation, defaultLocation,
                   ipAddr, body, history>>

\* body, err := io.ReadAll(resp.Body); ipAddr := string(body)
ReadIpBody ==
    /\ pc = "ipRead"
    /\ \E failed \in BOOLEAN :
          /\ pc' = Stage("ipRead", failed)
          /\ IF failed THEN ipAddr' = ipAddr ELSE ipAddr' \in IpBodies
    /\ UNCHANGED <<internalTime, militaryTime, internalLocation, defaultLocation,
                   body, requests, history>>

\* locResp, locErr := http.Get("http://ip-api.com/json/" + ipAddr)
HttpGetGeo ==
    /\ pc = "geoGet"
    /\ requests' = Append(requests, "http://ip-api.com/json/" \o ipAddr)
    /\ \E failed \in BOOLEAN : pc' = Stage("geoGet", failed)
    /\ UNCHANGED <<internalTime, militaryTime, internalLocation, defaultLocation,
                   ipAddr, body, history>>

\* body, err = io.ReadAll(locResp.Body)
ReadGeoBody ==
    /\ pc = "geoRead"
    /\ \E failed \in BOOLEAN :
          /\ pc' = Stage("geoRead", failed)
          /\ IF failed THEN body' = body ELSE body' \in GeoBodies
    /\ UNCHANGED <<internalTime, militaryTime, internalLocation, defaultLocation,
                   ipAddr, requests, history>>

\* parseErr := json.Unmarshal(body, &defaultLocation)
Decode ==
    /\ pc = "decode"
    /\ pc' = Stage("decode", ~body.json)
    /\ defaultLocation' = IF body.json THEN body.loc ELSE defaultLocation
    /\ UNCHANGED <<internalTime, militaryTime, internalLocation, ipAddr, body,
                   requests, history>>

\* Location{Country: defaultLocation.Country, Region: defaultLocation.Region,
\*          City: defaultLocation.City}
SeedLocation(def) ==
    [Country |-> def.Country, Region |-> def.Region, City |-> def.City, Timezone |-> ""]

\* main, from the return of requestLocation to the first prompt
Seed ==
    /\ pc = "seed"
    /\ internalTime' \in NowTimes
    /\ internalLocation' = SeedLocation(defaultLocation)
    /\ militaryTime' = FALSE
    /\ pc' = "repl"
    /\ UNCHANGED <<defaultLocation, ipAddr, body, requests, history>>

-----------------------------------------------------------------------------
(* The read-eval-print loop.  A line is given by its command name and the  *)
(* tokens after it; an empty line changes nothing and is left out.         *)

Enter(cmd, args) ==
    /\ cmdCount' = cmdCount + 1
    /\ lastCmd' = cmd
    /\ lastArgs' = args
    /\ preTime' = internalTime
    /\ preMilitary' = militaryTime
    /\ preLocation' = internalLocation

\* output := setTime(arguments[1:])
CallSetTime(args) ==
    /\ Enter("settime", args)
    /\ \E r \in setTime(args, internalTime, militaryTime) :
          /\ internalTime' = r.time
          /\ militaryTime' = r.military
          /\ stateValues' = r.sv
          /\ lastKind' = r.kind
          /\ output' = r.out
    /\ UNCHANGED <<pc, internalLocation, defaultLocation, ipAddr, body, requests>>

\* output := getTime(arguments[1:])
CallGetTime(args) ==
    /\ Enter("time", args)
    /\ lastKind' = "print"
    /\ output' = getTime(internalTime, militaryTime)
    /\ UNCHANGED <<pc, internalTime, militaryTime, internalLocation, defaultLocation,
                   ipAddr, body, requests, stateValues>>

\* output := setLocation(arguments[1:])
CallSetLocation(args) ==
    /\ Enter("setloc", args)
    /\ LET r == setLocation(args, internalLocation, defaultLocation)
       IN  /\ internalLocation' = r.loc
           /\ lastKind' = r.kind
           /\ output' = r.out
    /\ UNCHANGED <<pc, internalTime, militaryTime, defaultLocation, ipAddr, body,
                   requests, stateValues>>

\* output := getLocation(arguments[1:])
CallGetLocation(args) ==
    /\ Enter("loc", args)
    /\ lastKind' = "print"
    /\ output' = getLocation(internalLocation)
    /\ UNCHANGED <<pc, internalTime, militaryTime, internalLocation, defaultLocation,
                   ipAddr, body, requests, stateValues>>

Prompt == pc = "repl" /\ cmdCount < MaxCmds

SetTimeCmd == Prompt /\ \E args \in ReplTimeArgs : CallSetTime(args)

GetTimeCmd == Prompt /\ CallGetTime(<<>>)

SetLocCmd == Prompt /\ \E args \in LocationArgs : CallSetLocation(args)

GetLocCmd == Prompt /\ CallGetLocation(<<>>)

\* command2func[arguments[0]] == nil: "command not found", and the loop goes on
UnknownCmd ==
    /\ Prompt
    /\ \E cmd \in UnknownCommands :
          /\ Enter(cmd, <<>>)
          /\ lastKind' = "notFound"
          /\ output' = "  " \o cmd \o ": command not found"
    /\ UNCHANGED <<pc, internalTime, militaryTime, internalLocation, defaultLocation,
                   ipAddr, body, requests, stateValues>>

\* reader.ReadString fails (end of input): log.Fatal
ReadError ==
    /\ pc = "repl"
    /\ pc' = "fatal"
    /\ UNCHANGED <<internalTime, militaryTime, internalLocation, defaultLocation,
                   ipAddr, body, requests, history>>

Next ==
    \/ HttpGetIp
    \/ ReadIpBody
    \/ HttpGetGeo
    \/ ReadGeoBody
    \/ Decode
    \/ Seed
    \/ SetTimeCmd
    \/ GetTimeCmd
    \/ SetLocCmd
    \/ GetLocCmd
    \/ UnknownCmd
    \/ ReadError

Spec == Init /\ [][Next]_vars

-----------------------------------------------------------------------------
(* setTime on its own: one call, entered from any value time.Now() seeds   *)
(* the record with and from either value of the flag.                      *)

InitTime ==
    /\ pc = "repl"
    /\ internalTime \in NowTimes
    /\ militaryTime \in BOOLEAN
    /\ defaultLocation \in {b.loc : b \in {g \in GeoBodies : g.json}}
    /\ internalLocation = SeedLocation(defaultLocation)
    /\ ipAddr \in IpBodies
    /\ body \in {g \in GeoBodies : g.loc = defaultLocation}
    /\ requests = <<"https://api64.ipify.org", "http://ip-api.com/json/" \o ipAddr>>
    /\ cmdCount = 0
    /\ lastCmd = ""
    /\ lastArgs = <<>>
    /\ lastKind = ""
    /\ output = ""
    /\ stateValues = InitialStateValues(ZeroTime)
    /\ preTime = ZeroTime
    /\ preMilitary = FALSE
    /\ preLocation = ZeroLocation

SetTimeOnce == pc = "repl" /\ cmdCount = 0 /\ \E args \in TimeArgs : CallSetTime(args)

NextTime == SetTimeOnce

SpecTime == InitTime /\ [][NextTime]_vars

-----------------------------------------------------------------------------
(* Properties.  They read the record of the last call: its arguments, the  *)
(* return statement taken, the returned string and the values on entry.    *)

Fields(t) == <<t.hour, t.day, t.month, t.year>>

Scratch(sv) == <<sv.Hour, sv.Day, sv.Month, sv.Year>>

IsWildcard(args, i) == i > Len(args) \/ args[i] = Tok_star

IsRelative(args, i) == i <= Len(args) /\ args[i] # <<>> /\ Head(args[i]) = "/"

IsAbsolute(args, i) == i <= Len(args) /\ ~IsWildcard(args, i) /\ ~IsRelative(args, i)

\* the number each numeric or month-name token used above stands for
Means(tok) ==
    CASE tok = <<"1">> -> 1
      [] tok = <<"2">> -> 2
      [] tok = <<"1", "3">> -> 13
      [] tok = <<"1", "4">> -> 14
      [] tok = <<"3", "1">> -> 31
      [] tok = <<"2", "0", "2", "4">> -> 2024
      [] tok = <<"2", "0", "3", "0">> -> 2030
      [] tok = <<"d", "e", "c">> -> 12
      [] tok = <<"F", "e", "b">> -> 2
      [] tok = <<"J", "A", "N">> -> 1
      [] tok = <<"/", "1">> -> 1
      [] tok = <<"/", "-", "1">> -> -1
      [] tok = <<"/", "-", "1", "0">> -> -10
      [] tok = <<"/", "1", "5">> -> 15

ErrorKinds == {"errNumber", "errMonthRange", "errMonthCode", "usage"}

\* the scratch values name an hour of a day that exists in the local zone
ExistingLocalHour(sv) ==
    LET t == [hour |-> sv.Hour, day |-> sv.Day, month |-> sv.Month, year |-> sv.Year]
    IN  ValidTime(t) /\ t \notin SkippedHours

\* C1: a settime call that returns an error message (invalid number, month
\* number out of range, invalid month code, unparseable --military value)
\* leaves the time record and the military flag as they were on entry, also
\* when earlier tokens of the call were valid.
C1_ErrorCommitsNothing ==
    (lastCmd = "settime" /\ lastKind \in ErrorKinds)
        => (internalTime = preTime /\ militaryTime = preMilitary)

\* a call whose first three tokens were valid and applied to the scratch map
\* before the fourth was rejected
C1_Witness ==
    /\ lastCmd = "settime"
    /\ lastKind = "errNumber"
    /\ lastArgs = <<<<"1", "4">>, <<"/", "1">>, <<"d", "e", "c">>, Tok_milTrue>>
    /\ preTime = [hour |-> 9, day |-> 15, month |-> 6, year |-> 2024]
    /\ stateValues = [Hour |-> 14, Day |-> 16, Month |-> 12, Year |-> 2024]
    /\ internalTime = preTime
    /\ militaryTime = preMilitary

FourAbsolute == Len(lastArgs) >= 4 /\ \A i \in 1..4 : IsAbsolute(lastArgs, i)

\* C3 as stated: after a successful settime with four absolute tokens the
\* record's hour, day, month and year are exactly the parsed values.
C3_AbsoluteAlwaysExact ==
    (lastCmd = "settime" /\ lastKind = "set" /\ FourAbsolute)
        => \A i \in 1..4 : Fields(internalTime)[i] = Means(lastArgs[i])

\* C3 amended: the four parsed values are what is handed to time.Date, and
\* they are the record's fields when they name an hour that exists in the
\* local zone.
C3_AbsoluteExactWhenInRange ==
    (lastCmd = "settime" /\ lastKind = "set" /\ FourAbsolute)
        => /\ \A i \in 1..4 : Scratch(stateValues)[i] = Means(lastArgs[i])
           /\ ExistingLocalHour(stateValues)
                 => \A i \in 1..4 : Fields(internalTime)[i] = Means(lastArgs[i])

C3_Witness ==
    /\ lastCmd = "settime"
    /\ lastKind = "set"
    /\ lastArgs = <<<<"1", "4">>, <<"3", "1">>, <<"d", "e", "c">>, <<"2", "0", "3", "0">>>>
    /\ preTime = [hour |-> 9, day |-> 15, month |-> 6, year |-> 2024]
    /\ internalTime = [hour |-> 14, day |-> 31, month |-> 12, year |-> 2030]

\* C4 as stated: a token "/n" sets its field of the record to the value
\* before the call plus n, for each of Hour, Day, Month and Year.
C4_RelativeAlwaysSum ==
    (lastCmd = "settime" /\ lastKind = "set")
        => \A i \in 1..4 :
              IsRelative(lastArgs, i)
                  => Fields(internalTime)[i] = Fields(preTime)[i] + Means(lastArgs[i])

\* C4 amended: a token "/n" makes the value handed to time.Date for its
\* field the value before the call plus n (not n), unclamped and unchecked
\* for all four fields; the record's field is that sum when the values
\* handed over name an hour that exists in the local zone.
C4_RelativeSumWhenInRange ==
    (lastCmd = "settime" /\ lastKind = "set")
        => \A i \in 1..4 :
              IsRelative(lastArgs, i)
                  => /\ Scratch(stateValues)[i] = Fields(preTime)[i] + Means(lastArgs[i])
                     /\ ExistingLocalHour(stateValues)
                           => Fields(internalTime)[i]
                                 = Fields(preTime)[i] + Means(lastArgs[i])

C4_Witness ==
    /\ lastCmd = "settime"
    /\ lastKind = "set"
    /\ lastArgs = <<<<"/", "-", "1", "0">>, <<"/", "1">>, <<"/", "1">>, <<"/", "-", "1">>>>
    /\ preTime = [hour |-> 13, day |-> 29, month |-> 2, year |-> 2024]
    /\ internalTime = [hour |-> 3, day |-> 30, month |-> 3, year |-> 2023]

\* C5 as stated: a settime call that commits was given a month value (from
\* a number, a name or a relative update) that lies in 1-12.
C5_CommittedMonthValueInRange ==
    (lastCmd = "settime" /\ lastKind = "set") => stateValues.Month \in 1..12

\* C5 amended: a settime call that commits either was handed a month value
\* in 1-12 or got it from a relative update, which is not range-checked
\* (time.Date carries the excess into the year); an absolute month number
\* outside 1-12 is rejected with nothing committed; and the month of the
\* record lies in 1-12 after every call.
C5_AbsoluteMonthInRange ==
    /\ (lastCmd = "settime" /\ lastKind = "set")
          => (stateValues.Month \in 1..12 \/ IsRelative(lastArgs, 3))
    /\ (lastCmd = "settime" /\ IsAbsolute(lastArgs, 3)
            /\ lastArgs[3] = <<"1", "3">> /\ lastKind \in {"set", "errMonthRange"})
          => (lastKind = "errMonthRange" /\ internalTime = preTime)
    /\ lastCmd = "settime" => internalTime.month \in 1..12

C5_Witness ==
    /\ lastCmd = "settime"
    /\ lastKind = "errMonthRange"
    /\ lastArgs = <<<<"1", "4">>, <<"3", "1">>, <<"1", "3">>>>
    /\ stateValues.Hour = 14
    /\ internalTime = preTime
    /\ preTime.hour = 9

\* the rest of printTime's line after the hour
DateTail(t) == ", " \o codesToMonth[t.month] \o " " \o Itoa(t.day) \o ", " \o Itoa(t.year)

\* the line printed for record t, given how the hour is to be shown
Shown(hourText, t) ==
    /\ lastCmd = "time" => output = hourText \o DateTail(t)
    /\ (lastCmd = "settime" /\ lastKind = "set")
          => output = "  set time to: " \o hourText \o DateTail(t)

Printed == lastCmd = "time" \/ (lastCmd = "settime" /\ lastKind = "set")

\* C6 as stated: outside military mode the hour h is shown as (h-12)PM when
\* h > 12 and as hAM otherwise, with hour 12 shown as 12PM; in military mode
\* it is shown as h:00.
C6_NoonShownAsPM ==
    Printed =>
        LET h == internalTime.hour
        IN  Shown(IF militaryTime THEN Itoa(h) \o ":00"
                  ELSE IF h = 12 THEN "12PM"
                  ELSE IF h > 12 THEN Itoa(h - 12) \o "PM"
                  ELSE Itoa(h) \o "AM",
                  internalTime)

\* C6 amended: outside military mode the hour h is shown as (h-12)PM when
\* h > 12 and as hAM otherwise, so 0 is 0AM, 12 is 12AM and 13 is 1PM; in
\* military mode it is shown as h:00.
C6_HourShown ==
    Printed =>
        LET h == internalTime.hour
        IN  Shown(IF militaryTime THEN Itoa(h) \o ":00"
                  ELSE IF h > 12 THEN Itoa(h - 12) \o "PM"
                  ELSE Itoa(h) \o "AM",
                  internalTime)

C6_Witness ==
    /\ lastCmd = "time"
    /\ ~militaryTime
    /\ internalTime = [hour |-> 12, day |-> 10, month |-> 3, year |-> 2024]
    /\ output = "12AM, March 10, 2024"

\* C7: a settime call whose first token is --military=<b>, b a parseable
\* boolean, sets the flag to b and leaves the time record and the location
\* as they were, whatever tokens follow; the same call issued again right
\* after leaves the same state and returns the same string.
C7_MilitaryOnlyFlag ==
    /\ [](  (lastCmd = "settime" /\ lastKind = "military")
              => /\ internalTime = preTime
                 /\ internalLocation = preLocation
                 /\ militaryTime = (lastArgs[1] = Tok_milTrue)
                 /\ output = IF lastArgs[1] = Tok_milTrue THEN "  military time enabled"
                             ELSE "  military time disabled")
    /\ [][ (lastCmd = "settime" /\ lastKind = "military"
                /\ lastCmd' = "settime" /\ lastArgs' = lastArgs
                /\ cmdCount' = cmdCount + 1)
              => /\ internalTime' = internalTime
                 /\ militaryTime' = militaryTime
                 /\ internalLocation' = internalLocation
                 /\ lastKind' = lastKind
                 /\ output' = output ]_vars

\* the flag was off at start-up, so a call entered with the flag on follows
\* an earlier --military=true
C7_Witness ==
    /\ cmdCount = 2
    /\ lastCmd = "settime"
    /\ lastKind = "military"
    /\ lastArgs = <<Tok_milTrue>>
    /\ preMilitary
    /\ militaryTime
    /\ output = "  military time enabled"

\* C8 as stated: a zero-argument setloc makes the current location record
\* equal to the default record as the resolver populated it, and no command
\* changes the default record.
C8_ResetEqualsDefault ==
    /\ (lastCmd = "setloc" /\ lastArgs = <<>>) => internalLocation = body.loc
    /\ cmdCount > 0 => defaultLocation = body.loc

\* C8 amended: a zero-argument setloc makes the City, Region and Country of
\* the current record equal to those of the default record as the resolver
\* populated it; the Timezone of the current record is never copied and
\* stays empty; no command changes the default record.
C8_ResetRestoresDefault ==
    /\ (lastCmd = "setloc" /\ lastArgs = <<>>)
          => /\ internalLocation.City = body.loc.City
             /\ internalLocation.Region = body.loc.Region
             /\ internalLocation.Country = body.loc.Country
    /\ cmdCount > 0 => (internalLocation.Timezone = "" /\ defaultLocation = body.loc)

C8_Witness ==
    /\ cmdCount >= 2
    /\ lastCmd = "setloc"
    /\ lastArgs = <<>>
    /\ preLocation.City = "Canada"
    /\ preLocation.Country = "Canada"
    /\ internalLocation.City = "Paris"
    /\ internalLocation.Country = "France"

\* C9: a setloc call with one or more tokens maps the first three to City,
\* Region and Country: "*" or no token keeps the value before the call, any
\* other token becomes the value; tokens after the third are ignored, the
\* Timezone is untouched and the call returns the location line.
C9_SetLocation ==
    (lastCmd = "setloc" /\ Len(lastArgs) >= 1)
        => /\ \A i \in 1..3 :
                 internalLocation[locationNames[i]]
                     = IF IsWildcard(lastArgs, i) THEN preLocation[locationNames[i]]
                       ELSE IF lastArgs[i] = Tok_Canada THEN "Canada"
                       ELSE "?"
           /\ internalLocation.Timezone = preLocation.Timezone
           /\ lastKind = "set"
           /\ output = "Location: " \o internalLocation.City \o " "
                          \o internalLocation.Region \o ", " \o internalLocation.Country

C9_Witness ==
    /\ lastCmd = "setloc"
    /\ lastArgs = <<Tok_star, Tok_star, Tok_Canada, Tok_extra>>
    /\ preLocation = [City |-> "Paris", Region |-> "IDF", Country |-> "France",
                      Timezone |-> ""]
    /\ internalLocation = [City |-> "Paris", Region |-> "IDF", Country |-> "Canada",
                           Timezone |-> ""]
    /\ output = "Location: Paris IDF, Canada"

\* C10: the geolocation request is issued only after the public-IP answer
\* has been read and carries it; the loop is entered, and a command is
\* processed, only after both requests and the decode have succeeded and the
\* current location has been seeded from the default; after a failure of a
\* request or of the decode the process has ended with no command processed.
C10_StartupOrder ==
    /\ Len(requests) <= 2
    /\ Len(requests) >= 1 => requests[1] = "https://api64.ipify.org"
    /\ Len(requests) = 2
          => (ipAddr \in IpBodies /\ requests[2] = "http://ip-api.com/json/" \o ipAddr)
    /\ (pc = "repl" \/ cmdCount > 0)
          => /\ Len(requests) = 2
             /\ body.json
             /\ defaultLocation = body.loc
    /\ (pc = "repl" /\ cmdCount = 0)
          => /\ internalLocation.City = defaultLocation.City
             /\ internalLocation.Region = defaultLocation.Region
             /\ internalLocation.Country = defaultLocation.Country
    /\ (pc = "fatal" /\ ~body.json) => (cmdCount = 0 /\ internalLocation = ZeroLocation)

C10_Witness ==
    /\ pc = "repl"
    /\ cmdCount = 1
    /\ requests = <<"https://api64.ipify.org", "http://ip-api.com/json/203.0.113.7">>
    /\ body.json
    /\ defaultLocation.City = "Ottawa"
    /\ preLocation = [City |-> "Ottawa", Region |-> "", Country |-> "Canada",
                      Timezone |-> ""]

====
